---- MODULE Spec2Model ----
(***************************************************************************)
(* Model of the merkle-merge-tree repository.                              *)
(*                                                                         *)
(*   main.py            Tree / Forest over blobs kept in ./trees           *)
(*   exclusion_tlog.py  ExclusionTLog, InclusionProof, ExclusionProof      *)
(*                                                                         *)
(* A 32-byte string is a tagged tuple: <<"E", n>> is the entry whose bytes *)
(* are the big-endian number n, <<"H", s>> is sha256 of the concatenation  *)
(* of the items of s.  sha256 is collision-free on these terms.            *)
(***************************************************************************)
EXTENDS Integers, Sequences, FiniteSets, TLC

\* ---------------------------------------------------------------- bounds
NumEntries == 2
MaxAdds == 8
\* the adds of each of two histories over one store
MaxSharedAdds == 4
\* the adds behind the receiver f of g = f.add(entry)
MaxForkAdds == 4
\* the adds before a call on the trees of the forest
MaxCallAdds == 6
\* the longest tuple of trees given to Forest(...)
MaxTuple == 3
\* the greatest height given to Tree(...)
MaxOpenHeight == 3
\* the adds followed statement by statement
MaxStepAdds == 4

\* ------------------------------------------------------------ primitives
RECURSIVE Pow2(_)
Pow2(n) == IF n <= 0 THEN 1 ELSE 2 * Pow2(n - 1)

RECURSIVE XorNat(_, _)
XorNat(a, b) ==
  IF a = 0 /\ b = 0 THEN 0
  ELSE (((a % 2) + (b % 2)) % 2) + 2 * XorNat(a \div 2, b \div 2)

RECURSIVE BitLength(_)
BitLength(n) == IF n = 0 THEN 0 ELSE 1 + BitLength(n \div 2)

count_trailing_ones(n) == BitLength(XorNat(n, n + 1)) - 1

Sha256(blocks) == <<"H", blocks>>

Entry(n) == <<"E", n>>
ShortEntry == <<"X", 0>>
Entries == {Entry(n) : n \in 1..NumEntries}
EntryLen(e) == IF e[1] = "X" THEN 31 ELSE 32

\* bytes.__lt__ on two leaves
BytesLess(a, b) == a[2] < b[2]

NoBytes == <<"", 0>>

\* ------------------------------------------------------------------ Tree
get_data_entry(data, idx) ==
  IF idx + 1 <= Len(data) THEN data[idx + 1] ELSE NoBytes

\* self.root = self.get_data_entry(0): the first slot in place of the last
TreeNew_FirstSlot(data, height) ==
  [height |-> height,
   cardinality |-> Pow2(height - 1),
   data |-> data,
   root |-> get_data_entry(data, 0)]

TreeNew(data, height) ==
  [height |-> height,
   cardinality |-> Pow2(height - 1),
   data |-> data,
   root |-> get_data_entry(data, Pow2(height) - 2)]

RECURSIVE IterFrom(_, _, _, _)
IterFrom(data, pos, i, card) ==
  IF i >= card THEN <<>>
  ELSE <<get_data_entry(data, pos)>>
         \o IterFrom(data, pos + 1 + count_trailing_ones(i), i + 1, card)

TreeIter(t) == IterFrom(t.data, 0, 0, t.cardinality)

\* mid = start + (end - start) // 2
Mid(start, end) == start + (end - start) \div 2

\* the search goes left when needle <= mid_data
RECURSIVE find_inner_LessEq(_, _, _, _, _)
find_inner_LessEq(data, needle, proof, start, end) ==
  IF end - start = 1
  THEN [leaf |-> get_data_entry(data, Mid(start, end)), proof |-> proof]
  ELSE IF ~BytesLess(get_data_entry(data, Mid(start, end)), needle)
  THEN find_inner_LessEq(data, needle,
                         Append(proof, <<0, get_data_entry(data, end - 2)>>),
                         start, Mid(start, end))
  ELSE find_inner_LessEq(data, needle,
                         Append(proof, <<1, get_data_entry(data, Mid(start, end) - 1)>>),
                         Mid(start, end), end - 1)

\* [pair] + proof in place of proof + [pair]
RECURSIVE find_inner_Prepend(_, _, _, _, _)
find_inner_Prepend(data, needle, proof, start, end) ==
  IF end - start = 1
  THEN [leaf |-> get_data_entry(data, Mid(start, end)), proof |-> proof]
  ELSE IF BytesLess(needle, get_data_entry(data, Mid(start, end)))
  THEN find_inner_Prepend(data, needle,
                          <<<<0, get_data_entry(data, end - 2)>>>> \o proof,
                          start, Mid(start, end))
  ELSE find_inner_Prepend(data, needle,
                          <<<<1, get_data_entry(data, Mid(start, end) - 1)>>>> \o proof,
                          Mid(start, end), end - 1)

\* the bit of each pair names the other side
RECURSIVE find_inner_SwappedBits(_, _, _, _, _)
find_inner_SwappedBits(data, needle, proof, start, end) ==
  IF end - start = 1
  THEN [leaf |-> get_data_entry(data, Mid(start, end)), proof |-> proof]
  ELSE IF BytesLess(needle, get_data_entry(data, Mid(start, end)))
  THEN find_inner_SwappedBits(data, needle,
                              Append(proof, <<1, get_data_entry(data, end - 2)>>),
                              start, Mid(start, end))
  ELSE find_inner_SwappedBits(data, needle,
                              Append(proof, <<0, get_data_entry(data, Mid(start, end) - 1)>>),
                              Mid(start, end), end - 1)

\* Tree._find_inner: (leaf, proof), proof a list of (bit, hash) pairs
RECURSIVE find_inner(_, _, _, _, _)
find_inner(data, needle, proof, start, end) ==
  IF end - start = 1
  THEN [leaf |-> get_data_entry(data, Mid(start, end)), proof |-> proof]
  ELSE IF BytesLess(needle, get_data_entry(data, Mid(start, end)))
  THEN find_inner(data, needle,
                  Append(proof, <<0, get_data_entry(data, end - 2)>>),
                  start, Mid(start, end))
  ELSE find_inner(data, needle,
                  Append(proof, <<1, get_data_entry(data, Mid(start, end) - 1)>>),
                  Mid(start, end), end - 1)

find_left(t, needle) == find_inner(t.data, needle, <<>>, 0, Pow2(t.height) - 1)

\* heapq.merge replaced by chaining the two iterables
HeapqMerge_Chained(a, b) == a \o b

\* heapq.merge of two iterables: the first iterable wins a tie
RECURSIVE HeapqMerge(_, _)
HeapqMerge(a, b) ==
  IF a = <<>> THEN b
  ELSE IF b = <<>> THEN a
  ELSE IF BytesLess(b[1], a[1]) THEN <<b[1]>> \o HeapqMerge(a, Tail(b))
  ELSE <<a[1]>> \o HeapqMerge(Tail(a), b)

\* sha256(b+a) in place of sha256(a+b)
NodeHash_Swapped(a, b) == Sha256(<<b, a>>)

\* b, a = stack.pop(), stack.pop(); h = sha256(a+b)
NodeHash(a, b) == Sha256(<<a, b>>)

\* the loop without data.write(h): the hashes go to the stack only
RECURSIVE HashUp_NoWrite(_, _, _)
HashUp_NoWrite(k, data, stack) ==
  IF k = 0 THEN [err |-> "none", data |-> data, stack |-> stack]
  ELSE IF Len(stack) < 2 THEN [err |-> "IndexError", data |-> data, stack |-> stack]
  ELSE HashUp_NoWrite(k - 1, data,
                      Append(SubSeq(stack, 1, Len(stack) - 2),
                             NodeHash(stack[Len(stack) - 1], stack[Len(stack)])))

RECURSIVE HashUp(_, _, _)
HashUp(k, data, stack) ==
  IF k = 0 THEN [err |-> "none", data |-> data, stack |-> stack]
  ELSE IF Len(stack) < 2 THEN [err |-> "IndexError", data |-> data, stack |-> stack]
  ELSE HashUp(k - 1,
              Append(data, NodeHash(stack[Len(stack) - 1], stack[Len(stack)])),
              Append(SubSeq(stack, 1, Len(stack) - 2),
                     NodeHash(stack[Len(stack) - 1], stack[Len(stack)])))

RECURSIVE MergeLoop(_, _, _, _)
RECURSIVE MergeLoopNext(_, _, _)
\* one round of the for loop: write the entry, push it, hash up
MergeLoop(entries, i, data, stack) ==
  IF i >= Len(entries) THEN [err |-> "none", data |-> data, stack |-> stack]
  ELSE MergeLoopNext(entries, i,
                     HashUp(count_trailing_ones(i), Append(data, entries[i + 1]),
                            Append(stack, entries[i + 1])))

\* r: the blob and the stack after round i
MergeLoopNext(entries, i, r) ==
  IF r.err # "none" THEN r ELSE MergeLoop(entries, i + 1, r.data, r.stack)

\* the blob store: the files of ./trees, a set of [name, blob]; os.rename
\* replaces a file that already has the name (POSIX), os.remove needs the file
StoreHas(st, name) == \E f \in st : f.name = name
OsRename(st, name, blob) ==
  {f \in st : f.name # name} \cup {[name |-> name, blob |-> blob]}
OsRemove(st, name) == {f \in st : f.name # name}

NoTree == [height |-> 0, cardinality |-> 0, data |-> <<>>, root |-> NoBytes]

\* an error raised before ./trees/tmp is opened
MergeRefuse(error, st) ==
  [err |-> error, tree |-> NoTree, store |-> st, written |-> <<>>, opened |-> FALSE]

\* an error raised after ./trees/tmp is opened
MergeRaise(error, st, data) ==
  [err |-> error, tree |-> NoTree, store |-> st, written |-> data, opened |-> TRUE]

MergeReturn(self, st, data) ==
  [err |-> "none", tree |-> TreeNew(data, self.height + 1), store |-> st,
   written |-> data, opened |-> TRUE]

\* os.remove of other's blob, after that of self's
MergeRemoveOther(self, other, st2, data) ==
  IF ~StoreHas(st2, other.root) THEN MergeRaise("FileNotFoundError", st2, data)
  ELSE MergeReturn(self, OsRemove(st2, other.root), data)

\* the removals that follow the rename
MergeRemove(self, other, st1, data) ==
  IF self.height > 1
  THEN IF ~StoreHas(st1, self.root) THEN MergeRaise("FileNotFoundError", st1, data)
       ELSE MergeRemoveOther(self, other, OsRemove(st1, self.root), data)
  ELSE MergeReturn(self, st1, data)

\* w: the blob written under ./trees/tmp and the stack, at the end of the loop
MergeCommit(self, other, st, w) ==
  IF w.err # "none" THEN MergeRaise(w.err, st, w.data)
  ELSE IF Len(w.stack) # 1 THEN MergeRaise("AssertionError", st, w.data)
  ELSE MergeRemove(self, other, OsRename(st, w.stack[1], w.data), w.data)

\* merge without the comparison of the heights
TreeMerge_NoHeightCheck(self, other, st) ==
  MergeCommit(self, other, st,
              MergeLoop(HeapqMerge(TreeIter(self), TreeIter(other)), 0, <<>>, <<>>))

\* the result: the error raised or the tree returned, the store after the call,
\* (opened) whether the call opened ./trees/tmp and (written) the blob it wrote there
TreeMerge(self, other, st) ==
  IF self.height # other.height THEN MergeRefuse("ValueError", st)
  ELSE MergeCommit(self, other, st,
                   MergeLoop(HeapqMerge(TreeIter(self), TreeIter(other)), 0, <<>>, <<>>))

\* ---------------------------------------------------------------- Forest
\* cardinality = tree.cardinality in place of cardinality += tree.cardinality
RECURSIVE ForestInitLoop_LastCard(_, _, _, _, _, _)
ForestInitLoop_LastCard(trees, k, hasPrev, prev_height, blocks, cardinality) ==
  IF k > Len(trees)
  THEN [err |-> "none",
        forest |-> [trees |-> trees, root |-> Sha256(blocks),
                    cardinality |-> cardinality]]
  ELSE IF hasPrev /\ trees[k].height >= prev_height
  THEN [err |-> "ValueError",
        forest |-> [trees |-> <<>>, root |-> NoBytes, cardinality |-> 0]]
  ELSE ForestInitLoop_LastCard(trees, k + 1, TRUE, trees[k].height,
                               Append(blocks, trees[k].root),
                               trees[k].cardinality)

\* tree.height > prev_height in place of tree.height >= prev_height
RECURSIVE ForestInitLoop_Greater(_, _, _, _, _, _)
ForestInitLoop_Greater(trees, k, hasPrev, prev_height, blocks, cardinality) ==
  IF k > Len(trees)
  THEN [err |-> "none",
        forest |-> [trees |-> trees, root |-> Sha256(blocks),
                    cardinality |-> cardinality]]
  ELSE IF hasPrev /\ trees[k].height > prev_height
  THEN [err |-> "ValueError",
        forest |-> [trees |-> <<>>, root |-> NoBytes, cardinality |-> 0]]
  ELSE ForestInitLoop_Greater(trees, k + 1, TRUE, trees[k].height,
                              Append(blocks, trees[k].root),
                              cardinality + trees[k].cardinality)

RECURSIVE ForestInitLoop(_, _, _, _, _, _)
ForestInitLoop(trees, k, hasPrev, prev_height, blocks, cardinality) ==
  IF k > Len(trees)
  THEN [err |-> "none",
        forest |-> [trees |-> trees, root |-> Sha256(blocks),
                    cardinality |-> cardinality]]
  ELSE IF hasPrev /\ trees[k].height >= prev_height
  THEN [err |-> "ValueError",
        forest |-> [trees |-> <<>>, root |-> NoBytes, cardinality |-> 0]]
  ELSE ForestInitLoop(trees, k + 1, TRUE, trees[k].height,
                      Append(blocks, trees[k].root),
                      cardinality + trees[k].cardinality)

ForestNew(trees) == ForestInitLoop(trees, 1, FALSE, 0, <<>>, 0)

EmptyForest == ForestNew(<<>>).forest

MergeCall(self, other, m) ==
  [self |-> self, other |-> other, err |-> m.err, tree |-> m.tree,
   written |-> m.written]

\* calls: the merge calls made so far by this add, as [self, other, result]
RECURSIVE AddLoop(_, _, _, _, _)
RECURSIVE AddLoopMerged(_, _, _, _, _)
AddLoop(trees, acc, i, st, calls) ==
  IF i <= Len(trees) /\ trees[Len(trees) + 1 - i].height = acc.height
  THEN AddLoopMerged(trees, acc, i, calls,
                     TreeMerge(acc, trees[Len(trees) + 1 - i], st))
  ELSE [err |-> "none", acc |-> acc, i |-> i, store |-> st, calls |-> calls]

\* m: the outcome of accumulator |= self.trees[-i]
AddLoopMerged(trees, acc, i, calls, m) ==
  IF m.err # "none"
  THEN [err |-> m.err, acc |-> acc, i |-> i, store |-> m.store,
        calls |-> Append(calls, MergeCall(acc, trees[Len(trees) + 1 - i], m))]
  ELSE AddLoop(trees, m.tree, i + 1, m.store,
               Append(calls, MergeCall(acc, trees[Len(trees) + 1 - i], m)))

\* self.trees = self.trees[:len(self.trees)-(i-1)] + (accumulator,) before the return
AddSelf_InPlace(f, l) ==
  IF l.err # "none" THEN f
  ELSE [f EXCEPT !.trees = Append(SubSeq(f.trees, 1, Len(f.trees) - (l.i - 1)), l.acc)]

\* the receiver when the call ends: add reads self.trees and assigns no attribute
\* of self or of its trees
AddSelf(f, l) == f

\* n: the outcome of Forest(self.trees[:len(self.trees)-(i-1)] + (accumulator,))
AddReturn(f, l, n) ==
  [err |-> n.err, forest |-> IF n.err = "none" THEN n.forest ELSE f,
   self |-> AddSelf(f, l), store |-> l.store, calls |-> l.calls]

\* the new forest keeps one tree fewer of the receiver
AddBuild_DropsTree(f, l) ==
  IF l.err # "none"
  THEN [err |-> l.err, forest |-> f, self |-> AddSelf(f, l), store |-> l.store,
        calls |-> l.calls]
  ELSE AddReturn(f, l,
                 ForestNew(Append(SubSeq(f.trees, 1, Len(f.trees) - l.i), l.acc)))

\* l: the state at the end of the while loop
AddBuild(f, l) ==
  IF l.err # "none"
  THEN [err |-> l.err, forest |-> f, self |-> AddSelf(f, l), store |-> l.store,
        calls |-> l.calls]
  ELSE AddReturn(f, l,
                 ForestNew(Append(SubSeq(f.trees, 1, Len(f.trees) - (l.i - 1)), l.acc)))

ForestAdd(f, entry, st) ==
  IF EntryLen(entry) # 32
  THEN [err |-> "ValueError", forest |-> f, self |-> f, store |-> st, calls |-> <<>>]
  ELSE AddBuild(f, AddLoop(f.trees, TreeNew(<<entry>>, 1), 1, st, <<>>))

\* ======================================================= exclusion_tlog.py
NumValues == 3
MaxLogSize == 3

Values == 1..NumValues

\* Optional[x]: None is <<>>, a value x is <<x>>
None == <<>>
Some(x) == <<x>>

hash_value(value) == Sha256(<<"LEAF:", value>>)
hash_pair(left, right) == Sha256(<<"NODE:", left, right>>)
hash_roots(root_hashes) ==
  IF root_hashes = <<>> THEN Sha256(<<"EMPTY:">>)
  ELSE Sha256(<<"FOREST:">> \o root_hashes)

\* sorted(): insertion of each item after the items <= it (a stable sort)
RECURSIVE InsertSorted(_, _)
InsertSorted(s, x) ==
  IF s = <<>> THEN <<x>>
  ELSE IF x < s[1] THEN <<x>> \o s
  ELSE <<s[1]>> \o InsertSorted(Tail(s), x)

RECURSIVE Sorted(_)
Sorted(s) == IF s = <<>> THEN <<>> ELSE InsertSorted(Sorted(SubSeq(s, 1, Len(s) - 1)), s[Len(s)])

SeqHas(s, x) == \E k \in 1..Len(s) : s[k] = x
\* list.index: the position (from 0) of the first item equal to x
ListIndex(s, x) == (CHOOSE k \in 1..Len(s) : s[k] = x /\ \A m \in 1..(k - 1) : s[m] # x) - 1

LeafNode(val) == [hash |-> hash_value(val), value |-> Some(val), left |-> None, right |-> None]
ParentNode(l, r) ==
  [hash |-> hash_pair(l.hash, r.hash), value |-> None, left |-> Some(l), right |-> Some(r)]
is_leaf(node) == node.value # None

RECURSIVE PairUp(_, _)
PairUp(nodes, i) ==
  IF i >= Len(nodes) THEN <<>>
  ELSE IF i + 1 < Len(nodes)
  THEN <<ParentNode(nodes[i + 1], nodes[i + 2])>> \o PairUp(nodes, i + 2)
  ELSE <<nodes[i + 1]>> \o PairUp(nodes, i + 2)

RECURSIVE merge_nodes(_)
merge_nodes(nodes) ==
  IF Len(nodes) = 1 THEN nodes[1] ELSE merge_nodes(PairUp(nodes, 0))

RECURSIVE subtree_size(_)
subtree_size(optnode) ==
  IF optnode = None THEN 0
  ELSE IF is_leaf(optnode[1]) THEN 1
  ELSE subtree_size(optnode[1].left) + subtree_size(optnode[1].right)

\* the siblings list after the call, root first
RECURSIVE collect_siblings(_, _, _, _)
collect_siblings(node, target_idx, siblings, current_start) ==
  IF is_leaf(node) THEN siblings
  ELSE LET left_size == subtree_size(node.left)
       IN IF target_idx < current_start + left_size
          THEN collect_siblings(node.left[1], target_idx,
                                IF node.right # None
                                THEN Append(siblings, <<node.right[1].hash, FALSE>>)
                                ELSE siblings,
                                current_start)
          ELSE collect_siblings(node.right[1], target_idx,
                                IF node.left # None
                                THEN Append(siblings, <<node.left[1].hash, TRUE>>)
                                ELSE siblings,
                                current_start + left_size)

RECURSIVE Reverse(_)
Reverse(s) == IF s = <<>> THEN <<>> ELSE Append(Reverse(Tail(s)), s[1])

LeafNodes(vals) == [k \in 1..Len(vals) |-> LeafNode(vals[k])]

MerkleTree(root, sorted_values) == [root |-> root, sorted_values |-> sorted_values]
root_hash(tree) == tree.root.hash
create_single(value) == MerkleTree(LeafNode(value), <<value>>)
merge_trees(left, right) ==
  LET combined_values == Sorted(left.sorted_values \o right.sorted_values)
  IN MerkleTree(merge_nodes(LeafNodes(combined_values)), combined_values)

\* ---- ExclusionTLog methods, on the list self.trees
tlog_add(trees, value) == Append(trees, create_single(value))

tlog_add_batch(trees, values) ==
  IF values = <<>> THEN trees
  ELSE LET sorted_values == Sorted(values)
       IN Append(trees, MerkleTree(merge_nodes(LeafNodes(sorted_values)), sorted_values))

tlog_merge_oldest_two(trees) ==
  IF Len(trees) < 2 THEN trees
  ELSE <<merge_trees(trees[1], trees[2])>> \o SubSeq(trees, 3, Len(trees))

RECURSIVE tlog_merge_all(_)
tlog_merge_all(trees) ==
  IF Len(trees) > 1 THEN tlog_merge_all(tlog_merge_oldest_two(trees)) ELSE trees

\* ExclusionTLog(values): the constructor on a list of values
tlog_new(values) == IF Len(values) > 0 THEN tlog_add_batch(<<>>, values) ELSE <<>>

tlog_merge_with(trees, other_trees) == trees \o other_trees

get_root_hash(trees) ==
  IF Len(trees) = 0 THEN None
  ELSE IF Len(trees) = 1 THEN Some(root_hash(trees[1]))
  ELSE Some(hash_roots([k \in 1..Len(trees) |-> root_hash(trees[k])]))

RECURSIVE ConcatValues(_)
ConcatValues(trees) ==
  IF trees = <<>> THEN <<>> ELSE trees[1].sorted_values \o ConcatValues(Tail(trees))

\* all_values returned without the final sorted()
get_all_values_Unsorted(trees) == ConcatValues(trees)

get_all_values(trees) == Sorted(ConcatValues(trees))

\* only the first tree is searched
contains_FirstTree(trees, value) ==
  Len(trees) > 0 /\ SeqHas(trees[1].sorted_values, value)

contains(trees, value) == \E k \in 1..Len(trees) : SeqHas(trees[k].sorted_values, value)

\* (index, tree) of the first tree holding the value, as the index from 0; None
find_tree_containing(trees, value) ==
  IF \E k \in 1..Len(trees) : SeqHas(trees[k].sorted_values, value)
  THEN Some((CHOOSE k \in 1..Len(trees) :
               /\ SeqHas(trees[k].sorted_values, value)
               /\ \A m \in 1..(k - 1) : ~SeqHas(trees[m].sorted_values, value)) - 1)
  ELSE None

prove_inclusion(trees, value) ==
  LET result == find_tree_containing(trees, value)
  IN IF result = None THEN None
     ELSE LET tree_idx == result[1]
              tree == trees[tree_idx + 1]
              leaf_idx == ListIndex(tree.sorted_values, value)
              sibling_hashes == Reverse(collect_siblings(tree.root, leaf_idx, <<>>, 0))
          IN Some([value |-> value,
                   leaf_hash |-> hash_value(value),
                   sibling_hashes |-> sibling_hashes,
                   root_hash |-> root_hash(tree),
                   tree_index |-> tree_idx,
                   tree_root |-> root_hash(tree)])

RECURSIVE VerifyPath(_, _, _)
VerifyPath(current, sibling_hashes, k) ==
  IF k > Len(sibling_hashes) THEN current
  ELSE IF sibling_hashes[k][2]
  THEN VerifyPath(hash_pair(sibling_hashes[k][1], current), sibling_hashes, k + 1)
  ELSE VerifyPath(hash_pair(current, sibling_hashes[k][1]), sibling_hashes, k + 1)

InclusionVerify(proof) == VerifyPath(proof.leaf_hash, proof.sibling_hashes, 1) = proof.root_hash

\* the loop of prove_exclusion over all_values
RECURSIVE ExclusionScan(_, _, _, _, _)
ExclusionScan(all_values, k, value, predecessor, successor) ==
  IF k > Len(all_values) THEN [predecessor |-> predecessor, successor |-> successor]
  ELSE IF all_values[k] < value
  THEN ExclusionScan(all_values, k + 1, value, Some(all_values[k]), successor)
  ELSE IF all_values[k] > value /\ successor = None
  THEN [predecessor |-> predecessor, successor |-> Some(all_values[k])]
  ELSE ExclusionScan(all_values, k + 1, value, predecessor, successor)

EmptyBytes == <<"">>

prove_exclusion(trees, value) ==
  IF contains(trees, value) THEN None
  ELSE LET all_values == get_all_values(trees)
       IN IF all_values = <<>>
          THEN Some([target |-> value, predecessor |-> None, successor |-> None,
                     predecessor_proof |-> None, successor_proof |-> None,
                     root_hash |-> get_root_hash(trees)])
          ELSE LET ps == ExclusionScan(all_values, 1, value, None, None)
                   predecessor_proof ==
                     IF ps.predecessor # None
                     THEN prove_inclusion(trees, ps.predecessor[1]) ELSE None
                   successor_proof ==
                     IF ps.successor # None
                     THEN prove_inclusion(trees, ps.successor[1]) ELSE None
                   overall_root ==
                     IF predecessor_proof # None THEN Some(predecessor_proof[1].root_hash)
                     ELSE IF successor_proof # None THEN Some(successor_proof[1].root_hash)
                     ELSE IF get_root_hash(trees) # None THEN get_root_hash(trees)
                     ELSE Some(EmptyBytes)
               IN Some([target |-> value,
                        predecessor |-> ps.predecessor,
                        successor |-> ps.successor,
                        predecessor_proof |-> predecessor_proof,
                        successor_proof |-> successor_proof,
                        root_hash |-> overall_root])

ExclusionVerify(proof) ==
  IF proof.predecessor_proof # None /\ ~InclusionVerify(proof.predecessor_proof[1])
  THEN FALSE
  ELSE IF proof.successor_proof # None /\ ~InclusionVerify(proof.successor_proof[1])
  THEN FALSE
  ELSE IF proof.predecessor # None /\ proof.predecessor[1] >= proof.target
  THEN FALSE
  ELSE IF proof.successor # None /\ proof.successor[1] <= proof.target
  THEN FALSE
  ELSE TRUE

\* ----------------------------------------------------------------- state
Handles == {1, 2}

VARIABLES
  forests,   \* main.py: the Forest value each variable of the caller holds
  hist,      \* main.py: the entries whose add calls produced that Forest
  store,     \* main.py: the files of ./trees
  err,       \* main.py: the outcome of the last add call
  last,      \* main.py: the entry given to the last add call
  merges,    \* main.py: the Tree.merge calls the last add call made
  call,      \* main.py: the last call made on the trees of the forest, and its result
  run,       \* main.py: the add call in progress, statement by statement
  tlog,      \* exclusion_tlog.py: ExclusionTLog.trees
  query,     \* exclusion_tlog.py: the last proof call, [op, arg]
  iproof,    \* exclusion_tlog.py: the InclusionProof in hand, or None
  xproof     \* exclusion_tlog.py: the ExclusionProof in hand, or None

mainVars == <<forests, hist, store, err, last, merges, call, run>>
tlogVars == <<tlog, query, iproof, xproof>>
vars == <<forests, hist, store, err, last, merges, call, run, tlog, query, iproof, xproof>>

NoQuery == [op |-> "none", arg |-> 0]

NoCall ==
  [op |-> "none", self |-> NoTree, arg |-> NoBytes, err |-> "none", ret |-> None,
   store0 |-> {}]

\* no add call in progress
NoRun ==
  [pc |-> "idle", entry |-> NoBytes, acc |-> NoTree, i |-> 0, self |-> NoTree,
   other |-> NoTree, entries |-> <<>>, n |-> 0, k |-> 0, stack |-> <<>>,
   buf |-> <<>>, disk |-> <<>>, name |-> NoBytes]

MainInit ==
  /\ forests = [h \in Handles |-> EmptyForest]
  /\ hist = [h \in Handles |-> <<>>]
  /\ store = {}
  /\ err = "none"
  /\ last = NoBytes
  /\ merges = <<>>
  /\ call = NoCall
  /\ run = NoRun

TLogInit ==
  /\ tlog = <<>>
  /\ query = NoQuery
  /\ iproof = None
  /\ xproof = None

Init == MainInit /\ TLogInit

\* ---- main.py
\* r: what forests[i].add(entry) returned or raised
AddOutcome(i, j, entry, r) ==
  /\ err' = r.err
  /\ store' = r.store
  /\ last' = entry
  /\ merges' = r.calls
  /\ IF r.err = "none"
     THEN /\ forests' = [[forests EXCEPT ![i] = r.self] EXCEPT ![j] = r.forest]
          /\ hist' = [hist EXCEPT ![j] = Append(hist[i], entry)]
     ELSE /\ forests' = [forests EXCEPT ![i] = r.self]
          /\ hist' = hist
  /\ UNCHANGED <<call, run>>
  /\ UNCHANGED tlogVars

\* forests[j] = forests[i].add(entry)
Add(i, j, entry) ==
  /\ Len(hist[i]) < MaxAdds
  /\ AddOutcome(i, j, entry, ForestAdd(forests[i], entry, store))

\* forest = forest.add(entry), one variable holding the forest
Next == \E e \in Entries \cup {ShortEntry} : Add(1, 1, e)

Spec == Init /\ [][Next]_vars

\* ---- main.py: two histories of adds, each from an empty Forest, over ./trees
\* no add call is in a try block: the first exception ends the program
SharedAdd(i, entry) ==
  /\ err = "none"
  /\ Len(hist[i]) < MaxSharedAdds
  /\ Add(i, i, entry)

SharedNext == \E i \in Handles, e \in Entries : SharedAdd(i, e)

SpecShared == Init /\ [][SharedNext]_vars

\* ---- main.py: f = f.add(entry) and g = f.add(entry), the receiver f kept
\* the first exception ends the program
ForkAdd(j, entry) ==
  /\ err = "none"
  /\ Len(hist[1]) < MaxForkAdds
  /\ Add(1, j, entry)

\* g = g.add(entry): a further add on g = f.add(x), the forest derived from f
DerivedAdd(entry) ==
  /\ err = "none"
  /\ hist[2] # <<>>
  /\ SubSeq(hist[2], 1, Len(hist[2]) - 1) = hist[1]
  /\ Add(2, 2, entry)

ForkNext ==
  \/ \E j \in Handles, e \in Entries : ForkAdd(j, e)
  \/ \E e \in Entries : DerivedAdd(e)

SpecFork == Init /\ [][ForkNext]_vars

\* ---- main.py: one add call at a time, followed statement by statement
\* "./trees/tmp"
TmpName == <<"T", 0>>

\* open(..., "wb+") is a buffered file: io.DEFAULT_BUFFER_SIZE = 8192 bytes,
\* in slots of 32 bytes
BufferSlots == 256

\* data.write(x): the bytes go to the buffer of the file object; the buffer
\* goes to the file when the new bytes do not fit
BufferedWrite(r, x) ==
  IF Len(r.buf) + 1 > BufferSlots
  THEN [r EXCEPT !.disk = r.disk \o r.buf, !.buf = <<x>>]
  ELSE [r EXCEPT !.buf = Append(r.buf, x)]

\* what the file object reads back: the file and the buffer over it
FileData(r) == r.disk \o r.buf

\* the buffer goes to the file: on data.seek (Tree.get_data_entry) and when
\* the file object is closed
Flush(r) == [r EXCEPT !.disk = r.disk \o r.buf, !.buf = <<>>]

\* the file of the open file object as ./trees shows it; a file whose name was
\* removed is in no directory any more
FileSync(st, r) ==
  IF StoreHas(st, r.name) THEN OsRename(st, r.name, r.disk) ELSE st

\* b, a = stack.pop(), stack.pop(); stack.append(h): one entry goes, not two
StackHash_PopOne(stack, h) == Append(SubSeq(stack, 1, Len(stack) - 1), h)

\* b, a = stack.pop(), stack.pop(); stack.append(h)
StackHash(stack, h) == Append(SubSeq(stack, 1, Len(stack) - 2), h)

\* an exception leaves merge and add; the traceback holds the file object
Raise(error, r) ==
  /\ err' = error
  /\ run' = [r EXCEPT !.pc = "raised"]
  /\ merges' = Append(merges, MergeCall(r.self, r.other,
                                        [err |-> error, tree |-> NoTree,
                                         written |-> FileData(r)]))

\* Forest.add up to the while loop
StepAdd(entry) ==
  /\ run.pc = "idle"
  /\ err = "none"
  /\ Len(hist[1]) < MaxStepAdds
  /\ last' = entry
  /\ merges' = <<>>
  /\ IF EntryLen(entry) # 32
     THEN /\ err' = "ValueError"
          /\ run' = run
     ELSE /\ err' = err
          /\ run' = [NoRun EXCEPT !.pc = "while", !.entry = entry,
                                  !.acc = TreeNew(<<entry>>, 1), !.i = 1]
  /\ UNCHANGED <<forests, hist, store, call>>
  /\ UNCHANGED tlogVars

\* the while and if conditions hold: accumulator |= self.trees[-i] begins,
\* Tree.merge up to the for loop
StepOpen ==
  /\ run.pc = "while"
  /\ run.i <= Len(forests[1].trees)
  /\ forests[1].trees[Len(forests[1].trees) + 1 - run.i].height = run.acc.height
  /\ run' = [run EXCEPT !.pc = "for", !.self = run.acc,
                        !.other = forests[1].trees[Len(forests[1].trees) + 1 - run.i],
                        !.entries = HeapqMerge(TreeIter(run.acc),
                                               TreeIter(forests[1].trees[Len(forests[1].trees) + 1 - run.i])),
                        !.n = 0, !.k = 0, !.stack = <<>>, !.buf = <<>>,
                        !.disk = <<>>, !.name = TmpName]
  /\ store' = OsRename(store, TmpName, <<>>)
  /\ UNCHANGED <<forests, hist, err, last, merges, call>>
  /\ UNCHANGED tlogVars

\* the while loop ends
StepBreak ==
  /\ run.pc = "while"
  /\ ~(/\ run.i <= Len(forests[1].trees)
       /\ forests[1].trees[Len(forests[1].trees) + 1 - run.i].height = run.acc.height)
  /\ run' = [run EXCEPT !.pc = "build"]
  /\ UNCHANGED <<forests, hist, store, err, last, merges, call>>
  /\ UNCHANGED tlogVars

\* r: the file object after data.write(entry)
StepWriteNext(r) ==
  /\ run' = [r EXCEPT !.stack = Append(run.stack, run.entries[run.n + 1]),
                      !.k = count_trailing_ones(run.n),
                      !.pc = IF count_trailing_ones(run.n) > 0 THEN "hash" ELSE "for",
                      !.n = IF count_trailing_ones(run.n) > 0 THEN run.n ELSE run.n + 1]
  /\ store' = FileSync(store, r)

\* one round of the for loop up to the inner loop
StepWrite ==
  /\ run.pc = "for"
  /\ run.n < Len(run.entries)
  /\ StepWriteNext(BufferedWrite(run, run.entries[run.n + 1]))
  /\ UNCHANGED <<forests, hist, err, last, merges, call>>
  /\ UNCHANGED tlogVars

\* r: the file object after data.write(h)
StepHashNext(r, h) ==
  /\ run' = [r EXCEPT !.stack = StackHash(run.stack, h),
                      !.k = run.k - 1,
                      !.pc = IF run.k > 1 THEN "hash" ELSE "for",
                      !.n = IF run.k > 1 THEN run.n ELSE run.n + 1]
  /\ store' = FileSync(store, r)
  /\ UNCHANGED <<err, merges>>

\* h: sha256(a+b)
StepHashWrite(h) == StepHashNext(BufferedWrite(run, h), h)

\* one round of the inner loop
StepHash ==
  /\ run.pc = "hash"
  /\ IF Len(run.stack) < 2
     THEN Raise("IndexError", run) /\ UNCHANGED store
     ELSE StepHashWrite(NodeHash(run.stack[Len(run.stack) - 1], run.stack[Len(run.stack)]))
  /\ UNCHANGED <<forests, hist, last, call>>
  /\ UNCHANGED tlogVars

\* the for loop is over: the assert and os.rename
StepRename ==
  /\ run.pc = "for"
  /\ run.n >= Len(run.entries)
  /\ IF Len(run.stack) # 1
     THEN Raise("AssertionError", run) /\ UNCHANGED store
     ELSE /\ store' = OsRename(OsRemove(store, TmpName), run.stack[1], run.disk)
          /\ run' = [run EXCEPT !.name = run.stack[1],
                                !.pc = IF run.self.height > 1 THEN "remove_self"
                                       ELSE "return"]
          /\ UNCHANGED <<err, merges>>
  /\ UNCHANGED <<forests, hist, last, call>>
  /\ UNCHANGED tlogVars

\* os.remove of self's blob
StepRemoveSelf ==
  /\ run.pc = "remove_self"
  /\ IF ~StoreHas(store, run.self.root)
     THEN Raise("FileNotFoundError", run) /\ UNCHANGED store
     ELSE /\ store' = OsRemove(store, run.self.root)
          /\ run' = [run EXCEPT !.pc = "remove_other"]
          /\ UNCHANGED <<err, merges>>
  /\ UNCHANGED <<forests, hist, last, call>>
  /\ UNCHANGED tlogVars

\* os.remove of other's blob
StepRemoveOther ==
  /\ run.pc = "remove_other"
  /\ IF ~StoreHas(store, run.other.root)
     THEN Raise("FileNotFoundError", run) /\ UNCHANGED store
     ELSE /\ store' = OsRemove(store, run.other.root)
          /\ run' = [run EXCEPT !.pc = "return"]
          /\ UNCHANGED <<err, merges>>
  /\ UNCHANGED <<forests, hist, last, call>>
  /\ UNCHANGED tlogVars

\* r: the file object after the seek of Tree.__init__, t: the tree returned
StepReturnNext(r, t) ==
  /\ run' = [r EXCEPT !.pc = "while", !.acc = t, !.i = run.i + 1]
  /\ store' = FileSync(store, r)
  /\ merges' = Append(merges, MergeCall(run.self, run.other,
                                        [err |-> "none", tree |-> t,
                                         written |-> FileData(r)]))

\* return Tree(data, self.height + 1), and i += 1
StepReturn ==
  /\ run.pc = "return"
  /\ StepReturnNext(Flush(run), TreeNew(FileData(run), run.self.height + 1))
  /\ UNCHANGED <<forests, hist, err, last, call>>
  /\ UNCHANGED tlogVars

\* n: the outcome of Forest(...)
StepBuildNext(n) ==
  /\ err' = n.err
  /\ IF n.err = "none"
     THEN /\ forests' = [forests EXCEPT ![1] = n.forest]
          /\ hist' = [hist EXCEPT ![1] = Append(hist[1], run.entry)]
     ELSE UNCHANGED <<forests, hist>>

\* return Forest(self.trees[:len(self.trees)-(i-1)] + (accumulator,))
StepBuild ==
  /\ run.pc = "build"
  /\ StepBuildNext(ForestNew(Append(SubSeq(forests[1].trees, 1,
                                           Len(forests[1].trees) - (run.i - 1)),
                                    run.acc)))
  /\ run' = NoRun
  /\ UNCHANGED <<store, last, merges, call>>
  /\ UNCHANGED tlogVars

\* the exception ends the program: the file object is closed on the way out
StepFinalize ==
  /\ run.pc = "raised"
  /\ store' = FileSync(store, Flush(run))
  /\ run' = [NoRun EXCEPT !.pc = "exited"]
  /\ UNCHANGED <<forests, hist, err, last, merges, call>>
  /\ UNCHANGED tlogVars

\* the process is killed or the machine stops while the call is in progress:
\* what is in the buffer of the file object is lost
Kill ==
  /\ run.pc \notin {"idle", "exited", "killed"}
  /\ run' = [NoRun EXCEPT !.pc = "killed"]
  /\ UNCHANGED <<forests, hist, store, err, last, merges, call>>
  /\ UNCHANGED tlogVars

StepsNext ==
  \/ \E e \in Entries \cup {ShortEntry} : StepAdd(e)
  \/ StepOpen
  \/ StepBreak
  \/ StepWrite
  \/ StepHash
  \/ StepRename
  \/ StepRemoveSelf
  \/ StepRemoveOther
  \/ StepReturn
  \/ StepBuild
  \/ StepFinalize
  \/ Kill

SpecSteps == Init /\ [][StepsNext]_vars

\* ---- main.py: calls on the trees of the forest in hand
\* the entries added before the calls, and the needles looked for: a needle
\* below, between, equal to and above the entries
CallEntries == {Entry(2 * n) : n \in 1..NumEntries}
Needles == {Entry(n) : n \in 1..(2 * NumEntries + 1)}

TreeTuples(trees) ==
  UNION {[1..n -> {trees[k] : k \in 1..Len(trees)}] : n \in 0..MaxTuple}

\* the call is made while no result is in hand
MakeCall(c) ==
  /\ call.op = "none"
  /\ call' = c
  /\ UNCHANGED <<forests, hist, err, last, merges, run>>
  /\ UNCHANGED tlogVars

\* forest.trees[k].find_left(needle)
FindLeft(k, needle) ==
  /\ k \in 1..Len(forests[1].trees)
  /\ MakeCall([op |-> "find_left", self |-> forests[1].trees[k], arg |-> needle,
               err |-> "none", ret |-> Some(find_left(forests[1].trees[k], needle)),
               store0 |-> store])
  /\ UNCHANGED store

\* n: the outcome of Forest(trees)
ForestInitCall(trees, n, st) ==
  [op |-> "Forest", self |-> NoTree, arg |-> trees, err |-> n.err,
   ret |-> IF n.err = "none" THEN Some(n.forest) ELSE None, store0 |-> st]

\* Forest(trees), trees a tuple of trees of the forest
ForestInit(trees) ==
  /\ MakeCall(ForestInitCall(trees, ForestNew(trees), store))
  /\ UNCHANGED store

\* Tree(forest.trees[k].data, height): the constructor has no raise statement
TreeInit(k, height) ==
  /\ k \in 1..Len(forests[1].trees)
  /\ MakeCall([op |-> "Tree", self |-> NoTree,
               arg |-> [data |-> forests[1].trees[k].data, height |-> height],
               err |-> "none",
               ret |-> Some(TreeNew(forests[1].trees[k].data, height)),
               store0 |-> store])
  /\ UNCHANGED store

\* m: the outcome of self.merge(other)
MergeTreesCall(self, other, m, st) ==
  [op |-> "merge", self |-> self, arg |-> other, err |-> m.err,
   ret |-> Some([tree |-> m.tree, written |-> m.written, opened |-> m.opened]),
   store0 |-> st]

MergeTreesOutcome(self, other, m) ==
  /\ MakeCall(MergeTreesCall(self, other, m, store))
  /\ store' = m.store

\* forest.trees[k1].merge(forest.trees[k2]), two trees of the forest
MergeTrees(k1, k2) ==
  /\ k1 \in 1..Len(forests[1].trees)
  /\ k2 \in 1..Len(forests[1].trees)
  /\ k1 # k2
  /\ MergeTreesOutcome(forests[1].trees[k1], forests[1].trees[k2],
                       TreeMerge(forests[1].trees[k1], forests[1].trees[k2], store))

\* the caller is done with the result in hand
DropCall ==
  /\ call.op # "none"
  /\ call' = NoCall
  /\ UNCHANGED <<forests, hist, store, err, last, merges, run>>
  /\ UNCHANGED tlogVars

\* forest = forest.add(entry) while no result is in hand
CallsAdd(entry) ==
  /\ call.op = "none"
  /\ Len(hist[1]) < MaxCallAdds
  /\ Add(1, 1, entry)

CallsNext ==
  \/ \E e \in CallEntries : CallsAdd(e)
  \/ \E k \in 1..MaxCallAdds, needle \in Needles : FindLeft(k, needle)
  \/ \E trees \in TreeTuples(forests[1].trees) : ForestInit(trees)
  \/ \E k \in 1..MaxCallAdds, height \in 1..MaxOpenHeight : TreeInit(k, height)
  \/ \E k1 \in 1..MaxCallAdds, k2 \in 1..MaxCallAdds : MergeTrees(k1, k2)
  \/ DropCall

SpecCalls == Init /\ [][CallsNext]_vars

\* ---- exclusion_tlog.py
RECURSIVE LogSize(_)
LogSize(trees) ==
  IF trees = <<>> THEN 0 ELSE Len(trees[1].sorted_values) + LogSize(Tail(trees))

Batches(n) == UNION {[1..k -> Values] : k \in 0..n}

\* the log is changed while no proof is in hand
NewLog(trees) ==
  /\ query.op = "none"
  /\ tlog' = trees
  /\ query' = NoQuery
  /\ iproof' = None
  /\ xproof' = None
  /\ UNCHANGED mainVars

TAdd(value) ==
  /\ LogSize(tlog) < MaxLogSize
  /\ NewLog(tlog_add(tlog, value))

TAddBatch(values) ==
  /\ LogSize(tlog) + Len(values) <= MaxLogSize
  /\ NewLog(tlog_add_batch(tlog, values))

TMergeOldestTwo == NewLog(tlog_merge_oldest_two(tlog))

TMergeAll == NewLog(tlog_merge_all(tlog))

\* tlog = tlog.merge_with(ExclusionTLog(values))
TMergeWith(values) ==
  /\ LogSize(tlog) + Len(values) <= MaxLogSize
  /\ NewLog(tlog_merge_with(tlog, tlog_new(values)))

ProveInclusion(value) ==
  /\ query.op = "none"
  /\ query' = [op |-> "prove_inclusion", arg |-> value]
  /\ iproof' = prove_inclusion(tlog, value)
  /\ xproof' = None
  /\ UNCHANGED <<tlog, forests, hist, store, err, last, merges, call, run>>

ProveExclusion(value) ==
  /\ query.op = "none"
  /\ query' = [op |-> "prove_exclusion", arg |-> value]
  /\ xproof' = prove_exclusion(tlog, value)
  /\ iproof' = None
  /\ UNCHANGED <<tlog, forests, hist, store, err, last, merges, call, run>>

\* proof.value = value, on a proof that prove_inclusion returned
TamperValue(value) ==
  /\ query.op = "prove_inclusion"
  /\ iproof # None
  /\ query' = [op |-> "tamper_value", arg |-> value]
  /\ iproof' = Some([iproof[1] EXCEPT !.value = value])
  /\ UNCHANGED <<xproof, tlog, forests, hist, store, err, last, merges, call, run>>

\* proof.leaf_hash = hash_value(value), on a proof that prove_inclusion returned
TamperLeafHash(value) ==
  /\ query.op = "prove_inclusion"
  /\ iproof # None
  /\ query' = [op |-> "tamper_leaf_hash", arg |-> value]
  /\ iproof' = Some([iproof[1] EXCEPT !.leaf_hash = hash_value(value)])
  /\ UNCHANGED <<xproof, tlog, forests, hist, store, err, last, merges, call, run>>

\* ExclusionProof(target, p, s, prove_inclusion(p), prove_inclusion(s), root):
\* a proof put together by a prover from proofs the log returns
FabricateExclusion(target, p, s) ==
  /\ query.op = "none"
  /\ contains(tlog, p) /\ contains(tlog, s)
  /\ query' = [op |-> "fabricate_exclusion", arg |-> target]
  /\ xproof' = Some([target |-> target,
                     predecessor |-> Some(p),
                     successor |-> Some(s),
                     predecessor_proof |-> prove_inclusion(tlog, p),
                     successor_proof |-> prove_inclusion(tlog, s),
                     root_hash |-> get_root_hash(tlog)])
  /\ iproof' = None
  /\ UNCHANGED <<tlog, forests, hist, store, err, last, merges, call, run>>

\* the holder is done with the proof in hand
DropProof ==
  /\ query.op # "none"
  /\ query' = NoQuery
  /\ iproof' = None
  /\ xproof' = None
  /\ UNCHANGED <<tlog, forests, hist, store, err, last, merges, call, run>>

TLogNext ==
  \/ \E v \in Values : TAdd(v)
  \/ \E vs \in Batches(MaxLogSize) : TAddBatch(vs)
  \/ TMergeOldestTwo
  \/ TMergeAll
  \/ \E vs \in Batches(MaxLogSize) : TMergeWith(vs)
  \/ \E v \in Values : ProveInclusion(v)
  \/ \E v \in Values : ProveExclusion(v)
  \/ \E v \in Values : TamperValue(v)
  \/ \E v \in Values : TamperLeafHash(v)
  \/ \E t \in Values, p \in Values, s \in Values : FabricateExclusion(t, p, s)
  \/ DropProof

SpecTLog == Init /\ [][TLogNext]_vars

\* ================================================================ claims
\* ---- main.py, under Spec
RECURSIVE SumLeaves(_)
SumLeaves(trees) ==
  IF trees = <<>> THEN 0 ELSE Pow2(trees[1].height - 1) + SumLeaves(Tail(trees))

NonDecreasing(leaves) ==
  \A k \in 1..(Len(leaves) - 1) : ~BytesLess(leaves[k + 1], leaves[k])

RECURSIVE InsertBytes(_, _)
InsertBytes(s, x) ==
  IF s = <<>> THEN <<x>>
  ELSE IF BytesLess(x, s[1]) THEN <<x>> \o s
  ELSE <<s[1]>> \o InsertBytes(Tail(s), x)

RECURSIVE SortBytes(_)
SortBytes(s) ==
  IF s = <<>> THEN <<>> ELSE InsertBytes(SortBytes(SubSeq(s, 1, Len(s) - 1)), s[Len(s)])

\* the blob of the perfect tree over a leaf sequence: left half, right half, root
RECURSIVE DirectBuild(_)
DirectBuild(leaves) ==
  IF Len(leaves) <= 1 THEN leaves
  ELSE LET half == Len(leaves) \div 2
           l == DirectBuild(SubSeq(leaves, 1, half))
           r == DirectBuild(SubSeq(leaves, half + 1, Len(leaves)))
       IN l \o r \o <<Sha256(<<l[Len(l)], r[Len(r)]>>)>>

\* C1: in every forest reached by add calls the heights of the trees are strictly
\* decreasing from first to last, and Forest.cardinality is the sum of 2^(height-1)
\* over its trees.
C1_ForestCanonicity ==
  \A h \in Handles :
    LET f == forests[h]
    IN /\ \A k \in 1..(Len(f.trees) - 1) : f.trees[k].height > f.trees[k + 1].height
       /\ f.cardinality = SumLeaves(f.trees)

\* seven adds: trees of heights 3, 2, 1
C1_Witness ==
  /\ Len(forests[1].trees) = 3
  /\ forests[1].trees[1].height = 3
  /\ forests[1].cardinality = 7

\* C2: every add call with a 32-byte entry, repeated entries included, completes
\* without error, and the forest after n such calls has cardinality n.
C2_AddsComplete ==
  last \in Entries =>
    /\ err = "none"
    /\ forests[1].cardinality = Len(hist[1])

\* C8: the leaves of every tree of every forest reached by add calls, iterated in
\* storage order, are non-decreasing.
C8_SortedLeaves ==
  \A h \in Handles :
    \A k \in 1..Len(forests[h].trees) : NonDecreasing(TreeIter(forests[h].trees[k]))

\* a tree of four leaves, not all equal, whose first two entries were added in
\* descending order
C8_Witness ==
  /\ Len(hist[1]) >= 4
  /\ BytesLess(hist[1][2], hist[1][1])
  /\ Len(forests[1].trees) >= 1
  /\ forests[1].trees[1].height = 3
  /\ BytesLess(TreeIter(forests[1].trees[1])[1], TreeIter(forests[1].trees[1])[4])

\* C9: A.merge(B), for trees of equal height h with sorted leaves, is a tree of
\* height h+1 with 2^h leaves, which in storage order are the sorted multiset union
\* of the leaves of A and B.
C9_MergeResult ==
  \A k \in 1..Len(merges) :
    LET m == merges[k]
    IN (/\ m.self.height = m.other.height
        /\ NonDecreasing(TreeIter(m.self))
        /\ NonDecreasing(TreeIter(m.other)))
       => /\ m.err = "none"
          /\ m.tree.height = m.self.height + 1
          /\ Len(TreeIter(m.tree)) = Pow2(m.self.height)
          /\ TreeIter(m.tree) = SortBytes(TreeIter(m.self) \o TreeIter(m.other))

\* C10: the blob a merge writes, and so its root, depends only on the combined
\* multiset of leaves: it is the blob of the tree built directly from the sorted
\* leaves, and merging with the operands exchanged writes the same blob.
C10_MergeByMultiset ==
  \A k \in 1..Len(merges) :
    LET m == merges[k]
        leaves == SortBytes(TreeIter(m.self) \o TreeIter(m.other))
        exchanged == MergeLoop(HeapqMerge(TreeIter(m.other), TreeIter(m.self)),
                               0, <<>>, <<>>)
    IN /\ m.written = DirectBuild(leaves)
       /\ exchanged.data = m.written
       /\ exchanged.stack = <<m.written[Len(m.written)]>>

\* a merge of two height-2 trees with different leaves, whose merged leaves are
\* not the leaves of the first operand followed by those of the second
C10_Witness ==
  \E k \in 1..Len(merges) :
    /\ merges[k].self.height = 2
    /\ merges[k].err = "none"
    /\ TreeIter(merges[k].self) # TreeIter(merges[k].other)
    /\ TreeIter(merges[k].tree) # TreeIter(merges[k].self) \o TreeIter(merges[k].other)

\* ---- exclusion_tlog.py, under SpecTLog
LogValueSet(trees) ==
  UNION {{trees[k].sorted_values[m] : m \in 1..Len(trees[k].sorted_values)} :
           k \in 1..Len(trees)}

LogRoots(trees) == {root_hash(trees[k]) : k \in 1..Len(trees)}

MaxBelow(trees, t) ==
  LET below == {v \in LogValueSet(trees) : v < t}
  IN IF below = {} THEN None ELSE Some(CHOOSE v \in below : \A w \in below : w <= v)

MinAbove(trees, t) ==
  LET above == {v \in LogValueSet(trees) : v > t}
  IN IF above = {} THEN None ELSE Some(CHOOSE v \in above : \A w \in above : v <= w)

\* C3: for every value held in the log, prove_inclusion returns a proof that
\* verifies and whose root_hash is get_root_hash() of the log, with two or more
\* trees too.
C3_InclusionAgainstForestRoot ==
  (query.op = "prove_inclusion" /\ query.arg \in LogValueSet(tlog)) =>
    /\ iproof # None
    /\ InclusionVerify(iproof[1])
    /\ Some(iproof[1].root_hash) = get_root_hash(tlog)

\* C4: for every value t not in the log, prove_exclusion returns a proof whose
\* predecessor is the greatest value < t over all trees, whose successor is the
\* least value > t over all trees (None where there is none), and which verifies.
C4_ExclusionComplete ==
  (query.op = "prove_exclusion" /\ query.arg \notin LogValueSet(tlog)) =>
    /\ xproof # None
    /\ xproof[1].target = query.arg
    /\ xproof[1].predecessor = MaxBelow(tlog, query.arg)
    /\ xproof[1].successor = MinAbove(tlog, query.arg)
    /\ ExclusionVerify(xproof[1])

\* predecessor and successor come from different trees, the later tree holding
\* the smaller value
C4_Witness ==
  /\ query.op = "prove_exclusion"
  /\ xproof # None
  /\ xproof[1].predecessor_proof # None
  /\ xproof[1].successor_proof # None
  /\ xproof[1].predecessor_proof[1].tree_index > xproof[1].successor_proof[1].tree_index

\* C5: ExclusionProof.verify accepts only when no value of the log lies strictly
\* between the predecessor and the successor of the proof (an absent side being
\* unbounded).
C5_ExclusionVerifierSound ==
  (xproof # None /\ ExclusionVerify(xproof[1])) =>
    ~\E v \in LogValueSet(tlog) :
        /\ xproof[1].predecessor = None \/ v > xproof[1].predecessor[1]
        /\ xproof[1].successor = None \/ v < xproof[1].successor[1]

\* C6: prove_inclusion returns None for a value that is not in the log, and no
\* InclusionProof that claims such a value against a root of the log verifies.
C6_InclusionSound ==
  /\ (query.op = "prove_inclusion" /\ query.arg \notin LogValueSet(tlog)) => iproof = None
  /\ (/\ iproof # None
      /\ iproof[1].value \notin LogValueSet(tlog)
      /\ iproof[1].root_hash \in LogRoots(tlog))
     => ~InclusionVerify(iproof[1])

\* C7: for every value x exactly one of prove_inclusion(x) and prove_exclusion(x)
\* returns a proof: prove_inclusion(x) is None iff x is in no tree, and
\* prove_exclusion(x) is None iff x is in some tree.
C7_AbsenceSentinels ==
  \A x \in Values :
    LET inc == prove_inclusion(tlog, x)
        exc == prove_exclusion(tlog, x)
    IN /\ (inc = None) <=> (x \notin LogValueSet(tlog))
       /\ (exc = None) <=> (x \in LogValueSet(tlog))
       /\ (inc = None) # (exc = None)

\* prove_exclusion returned None for a value held by the second tree only, while
\* another value is in no tree
C7_Witness ==
  /\ query.op = "prove_exclusion"
  /\ xproof = None
  /\ Len(tlog) >= 2
  /\ query.arg \notin LogValueSet(<<tlog[1]>>)
  /\ \E y \in Values : prove_inclusion(tlog, y) = None

\* ---- main.py, under Spec: the layout of the blobs
\* the number of trailing 1-bits of i
RECURSIVE TrailingOnes(_)
TrailingOnes(i) == IF i % 2 = 1 THEN 1 + TrailingOnes(i \div 2) ELSE 0

\* the slot of leaf i when TrailingOnes(j) hashes follow each leaf j < i
RECURSIVE LeafSlot(_)
LeafSlot(i) == IF i = 0 THEN 0 ELSE LeafSlot(i - 1) + 1 + TrailingOnes(i - 1)

IsHash(x) == x[1] = "H"
IsEntry(x) == x[1] = "E"

BlobLayout(data, height) ==
  LET N == Pow2(height - 1)
  IN /\ Len(data) = Pow2(height) - 1
     /\ \A i \in 0..(N - 1) : IsEntry(data[LeafSlot(i) + 1])
     /\ \A i \in 0..(N - 2) :
          /\ LeafSlot(i + 1) - LeafSlot(i) - 1 = TrailingOnes(i)
          /\ \A s \in (LeafSlot(i) + 1)..(LeafSlot(i + 1) - 1) : IsHash(data[s + 1])
     /\ Len(data) - 1 - LeafSlot(N - 1) = height - 1
     /\ \A s \in (LeafSlot(N - 1) + 1)..(Len(data) - 1) : IsHash(data[s + 1])

\* C11: every tree of height h that Tree.merge returned has a blob of exactly
\* 2^h - 1 slots in which, with the leaves numbered 0..N-1 in storage order
\* (N = 2^(h-1)), exactly TrailingOnes(i) hash slots lie between leaf i and leaf
\* i+1 and exactly h-1 hash slots follow the last leaf.
C11_BlobLayout ==
  /\ \A h \in Handles : \A k \in 1..Len(forests[h].trees) :
       forests[h].trees[k].height > 1
         => BlobLayout(forests[h].trees[k].data, forests[h].trees[k].height)
  /\ \A k \in 1..Len(merges) :
       merges[k].err = "none" => BlobLayout(merges[k].tree.data, merges[k].tree.height)

\* a tree of eight leaves, returned by the third merge of one add call
C11_Witness ==
  /\ Len(merges) = 3
  /\ merges[3].err = "none"
  /\ merges[3].tree.height = 4
  /\ Len(forests[1].trees) = 1
  /\ forests[1].trees[1] = merges[3].tree
  /\ Len(forests[1].trees[1].data) = 15

\* slots start..end-1 hold a subtree: its last slot is the hash of the last slot
\* of its left part start..mid-1 and the last slot of its right part mid..end-2
RECURSIVE SubtreeOK(_, _, _)
SubtreeOK(data, start, end) ==
  IF end - start <= 1 THEN TRUE
  ELSE /\ data[end] = Sha256(<<data[(start + (end - start) \div 2)], data[end - 1]>>)
       /\ SubtreeOK(data, start, start + (end - start) \div 2)
       /\ SubtreeOK(data, start + (end - start) \div 2, end - 1)

\* C12: for every tree that Forest.add or Tree.merge produced, Tree.root is the
\* last slot of its blob, and in every subtree range [start, end) of more than one
\* slot, with mid = start + (end - start) // 2, slot end-1 is the hash of slot
\* mid-1 followed by slot end-2.
C12_RootConsistency ==
  /\ \A h \in Handles : \A k \in 1..Len(forests[h].trees) :
       LET t == forests[h].trees[k]
       IN /\ Len(t.data) >= 1
          /\ t.root = t.data[Len(t.data)]
          /\ SubtreeOK(t.data, 0, Len(t.data))
  /\ \A k \in 1..Len(merges) :
       merges[k].err = "none"
         => /\ merges[k].tree.root = merges[k].tree.data[Len(merges[k].tree.data)]
            /\ SubtreeOK(merges[k].tree.data, 0, Len(merges[k].tree.data))

\* a forest of a four-leaf tree with two different halves, and a one-leaf tree
C12_Witness ==
  /\ Len(forests[1].trees) = 2
  /\ forests[1].trees[1].height = 3
  /\ forests[1].trees[2].height = 1
  /\ forests[1].trees[1].data[3] # forests[1].trees[1].data[6]
  /\ forests[1].trees[1].root = Sha256(<<forests[1].trees[1].data[3],
                                          forests[1].trees[1].data[6]>>)

\* the 32-byte values a forest holds: the slots of the blobs of its trees
ForestSlots(f) ==
  UNION {{f.trees[k].data[n] : n \in 1..Len(f.trees[k].data)} : k \in 1..Len(f.trees)}

\* C16: the root of no forest reached by add calls equals the hash Tree.merge
\* computes for a pair of children (l, r); in particular the root of a two-tree
\* forest is not the node hash of its two tree roots.
C16_ForestRootSeparated ==
  \A h \in Handles :
    \A l \in ForestSlots(forests[h]), r \in ForestSlots(forests[h]) :
      forests[h].root # NodeHash(l, r)

\* ---- main.py, under SpecCalls
LeafSet(t) == {TreeIter(t)[k] : k \in 1..Len(TreeIter(t))}

\* C14: for a tree whose leaves are sorted and a needle, find_left returns a leaf
\* of the tree, never a hash slot: the needle itself when a leaf equals it,
\* otherwise the greatest leaf below the needle, and the first leaf when the
\* needle is below every leaf.
C14_FindLeftResult ==
  (call.op = "find_left" /\ NonDecreasing(TreeIter(call.self)))
    => LET leaves == LeafSet(call.self)
           leaf == call.ret[1].leaf
           below == {x \in leaves : BytesLess(x, call.arg)}
       IN /\ IsEntry(leaf)
          /\ leaf \in leaves
          /\ call.arg \in leaves => leaf = call.arg
          /\ (call.arg \notin leaves /\ below # {})
               => /\ leaf \in below
                  /\ \A x \in below : ~BytesLess(leaf, x)
          /\ (call.arg \notin leaves /\ below = {}) => leaf = TreeIter(call.self)[1]

\* in a tree of four leaves of two values, a needle between the two values
\* that is not a leaf: the leaf returned is the lesser value
C14_Witness ==
  /\ call.op = "find_left"
  /\ call.self.height = 3
  /\ call.arg \notin LeafSet(call.self)
  /\ BytesLess(call.ret[1].leaf, call.arg)
  /\ \E x \in LeafSet(call.self) : BytesLess(call.arg, x)

\* acc = leaf; for (bit, h) in the pairs: acc = sha256(h + acc) if bit else
\* sha256(acc + h)
RECURSIVE FoldProof(_, _)
FoldProof(acc, pairs) ==
  IF pairs = <<>> THEN acc
  ELSE FoldProof(IF pairs[1][1] = 1 THEN Sha256(<<pairs[1][2], acc>>)
                 ELSE Sha256(<<acc, pairs[1][2]>>),
                 Tail(pairs))

\* C15, as claimed: the pairs of the proof find_left returns, applied in list
\* order to the returned leaf, end with the root of the tree.
C15_ProofInListOrder ==
  call.op = "find_left"
    => FoldProof(call.ret[1].leaf, call.ret[1].proof) = call.self.root

\* C15, amended: the proof find_left returns is a top-down list, its first pair
\* the sibling directly under the root and its last pair the sibling of the
\* returned leaf, so the pairs applied from last to first to the returned leaf end
\* with the root of the tree, for every tree and every needle.
C15_ProofTopDown ==
  call.op = "find_left"
    => LET leaf == call.ret[1].leaf
           proof == call.ret[1].proof
       IN /\ FoldProof(leaf, Reverse(proof)) = call.self.root
          /\ proof # <<>>
               => /\ \/ call.self.root = Sha256(<<proof[1][2],
                                                   FoldProof(leaf, Reverse(Tail(proof)))>>)
                     \/ call.self.root = Sha256(<<FoldProof(leaf, Reverse(Tail(proof))),
                                                   proof[1][2]>>)
                  /\ IsEntry(proof[Len(proof)][2])

\* a proof of two pairs with different sides, in a tree of four leaves
C15_Witness ==
  /\ call.op = "find_left"
  /\ call.self.height = 3
  /\ Len(call.ret[1].proof) = 2
  /\ call.ret[1].proof[1][1] # call.ret[1].proof[2][1]
  /\ FoldProof(call.ret[1].leaf, call.ret[1].proof) # call.self.root

StrictlyDecreasing(trees) ==
  \A k \in 1..(Len(trees) - 1) : trees[k].height > trees[k + 1].height

\* C17: Forest(trees) returns a Forest iff the heights of the trees are strictly
\* decreasing, the empty tuple and a single tree included; otherwise it raises
\* and there is no Forest.
C17_NonCanonicalRejected ==
  call.op = "Forest"
    => /\ (call.err = "none") <=> StrictlyDecreasing(call.arg)
       /\ call.err = "none" => (call.ret # None /\ call.ret[1].trees = call.arg)
       /\ call.err # "none" => (call.err = "ValueError" /\ call.ret = None)

\* a tuple of two trees of the same height, rejected
C17_Witness ==
  /\ call.op = "Forest"
  /\ Len(call.arg) = 2
  /\ call.arg[1].height = call.arg[2].height
  /\ call.err = "ValueError"

\* C18: merge of two trees of different heights raises before any effect: it has
\* not opened the temporary blob, the store is as it was before the call, and
\* the two trees are still the trees of the forest.
C18_HeightMismatch ==
  (call.op = "merge" /\ call.self.height # call.arg.height)
    => /\ call.err = "ValueError"
       /\ ~call.ret[1].opened
       /\ call.ret[1].written = <<>>
       /\ store = call.store0
       /\ \E k \in 1..Len(forests[1].trees) : forests[1].trees[k] = call.self
       /\ \E k \in 1..Len(forests[1].trees) : forests[1].trees[k] = call.arg

\* the merge of a four-leaf tree, whose blob is in the store, with a shorter tree
C18_Witness ==
  /\ call.op = "merge"
  /\ call.self.height = 3
  /\ call.arg.height < 3
  /\ StoreHas(store, call.self.root)
  /\ call.err = "ValueError"

\* C19: Tree(blob, h) raises whenever the blob is not of 2^h - 1 slots.
C19_InvalidBlobLength ==
  (call.op = "Tree" /\ Len(call.arg.data) # Pow2(call.arg.height) - 1)
    => call.err # "none"

\* ---- main.py, under SpecShared
TreeRoots(f) == [k \in 1..Len(f.trees) |-> f.trees[k].root]

\* C13: two histories that add the same sequence of entries to an empty Forest,
\* their adds interleaved over the same store, both complete and end with the
\* same forest root and the same tuple of tree roots.  Adds that merge two
\* trees of the same root are left aside here: those fail in one history alone.
C13_DeterministicRoot ==
  /\ (/\ last \in Entries
      /\ \A k \in 1..Len(merges) : merges[k].self.root # merges[k].other.root)
       => err = "none"
  /\ hist[1] = hist[2]
       => /\ forests[1].root = forests[2].root
          /\ TreeRoots(forests[1]) = TreeRoots(forests[2])

C23_ProofValidity ==
  call.op = "find_left"
    => /\ Len(call.ret[1].proof) = call.self.height - 1
       /\ \A k \in 1..Len(call.ret[1].proof) :
            /\ Len(call.ret[1].proof[k]) = 2
            /\ call.ret[1].proof[k][1] \in {0, 1}
       /\ FoldProof(call.ret[1].leaf, Reverse(call.ret[1].proof)) = call.self.root

\* in a tree of four leaves the needle is a leaf that is not the first leaf, and
\* the proof of two pairs starts on the right side
C23_Witness ==
  /\ call.op = "find_left"
  /\ call.self.height = 3
  /\ call.ret[1].leaf = call.arg
  /\ call.ret[1].leaf # TreeIter(call.self)[1]
  /\ Len(call.ret[1].proof) = 2
  /\ call.ret[1].proof[1][1] = 1
  /\ FoldProof(call.ret[1].leaf, Reverse(call.ret[1].proof)) = call.self.root

\* bit k (from 0) of n
Bit(n, k) == (n \div Pow2(k)) % 2

RECURSIVE PopCount(_)
PopCount(n) == IF n = 0 THEN 0 ELSE (n % 2) + PopCount(n \div 2)

\* C24: after n successful add calls on the empty Forest, the forest contains a
\* tree of height k iff bit k - 1 of n is set, so the number of trees is
\* popcount(n), and a successful add performs exactly as many merges as n had
\* trailing one bits before it.
C24_BinaryCounter ==
  LET n == Len(hist[1])
      heights == {forests[1].trees[k].height : k \in 1..Len(forests[1].trees)}
  IN /\ \A k \in 1..(BitLength(n) + 1) : (k \in heights) <=> (Bit(n, k - 1) = 1)
     /\ \A k \in heights : k \in 1..(BitLength(n) + 1)
     /\ Len(forests[1].trees) = PopCount(n)
     /\ (last \in Entries /\ err = "none")
          => /\ n >= 1
             /\ Len(merges) = TrailingOnes(n - 1)

\* the seventh add leaves trees of heights 3, 2 and 1 without a merge, after the
\* fourth add had merged twice
C24_Witness ==
  /\ Len(hist[1]) = 7
  /\ err = "none"
  /\ last \in Entries
  /\ Len(forests[1].trees) = 3
  /\ merges = <<>>
  /\ forests[1].trees[1].height = 3

\* C25: for a forest f returned by a sequence of adds, after further adds on f
\* and on forests derived from f, an add on the old forest f still succeeds and
\* returns a forest of cardinality f.cardinality + 1 whose trees hold exactly
\* the leaves of f plus the entry.  Adds that merge two trees of the same root
\* are left aside here: those fail without any other forest.
C25_OldForestsUsable ==
  (/\ last \in Entries
   /\ \A k \in 1..Len(merges) : merges[k].self.root # merges[k].other.root)
    => /\ err = "none"
       /\ \A h \in Handles :
            /\ forests[h].cardinality = Len(hist[h])
            /\ SumLeaves(forests[h].trees) = Len(hist[h])

\* ---- main.py, under SpecSteps
\* a whole blob of a tree under its root-hash name
CompleteBlob(name, blob) ==
  /\ Len(blob) >= 3
  /\ Len(blob) = Pow2(BitLength(Len(blob))) - 1
  /\ blob[Len(blob)] = name
  /\ SubtreeOK(blob, 0, Len(blob))

\* C21: in every execution of merge, all 2^(h+1) - 1 output slots are written
\* under the temporary name, then the temporary blob is renamed to its final
\* root-hash name, then the input blobs are removed; so at every intermediate
\* state, and after an abort at any step, no partial blob exists under a final
\* content-addressed name, and no input blob is removed while the merged blob
\* is missing under its final name.
C21_CommitOrdering ==
  /\ \A f \in store : f.name # TmpName => CompleteBlob(f.name, f.blob)
  /\ run.pc \in {"remove_self", "remove_other", "return"}
       => \E f \in store :
            /\ f.name = run.name
            /\ Len(f.blob) = Pow2(run.self.height + 1) - 1
  /\ (run.pc \in {"remove_other", "return"} /\ run.self.height > 1)
       => \E f \in store : f.name = run.name /\ CompleteBlob(f.name, f.blob)

\* C22, as claimed: while merging two trees of height h the stack never holds
\* more than h entries at any point of the loop, and holds exactly one entry,
\* the new root, when the loop ends.
C22_StackAtMostH ==
  /\ run.pc \in {"for", "hash"} => Len(run.stack) <= run.self.height
  /\ (run.pc = "for" /\ run.n = Len(run.entries))
       => run.stack = <<FileData(run)[Len(FileData(run))]>>

\* C22, amended: while merging two trees of height h the stack never holds
\* more than h + 1 entries at any point of the loop: as many as i has one bits
\* at the top of round i, which is at most h, and one more once the leaf of
\* the round is pushed.  When the loop ends it holds exactly one entry, the
\* last slot written, which is the name the blob gets and the root of the tree
\* returned.
C22_StackBound ==
  /\ run.pc \in {"for", "hash"}
       => /\ Len(run.stack) <= run.self.height + 1
          /\ run.n <= Len(run.entries)
          /\ Len(run.entries) = Pow2(run.self.height)
  /\ (run.pc = "for" /\ run.n < Len(run.entries))
       => /\ Len(run.stack) = PopCount(run.n)
          /\ Len(run.stack) <= run.self.height
  /\ (run.pc = "for" /\ run.n = Len(run.entries))
       => /\ Len(run.stack) = 1
          /\ Len(FileData(run)) = Pow2(run.self.height + 1) - 1
          /\ run.stack[1] = FileData(run)[Len(FileData(run))]
  /\ run.pc \in {"remove_self", "remove_other", "return"}
       => run.stack = <<run.name>>
  /\ \A k \in 1..Len(merges) :
       merges[k].err = "none" => merges[k].tree.root = merges[k].written[Len(merges[k].written)]

\* the fourth leaf of a merge of two trees of height 2 is pushed: three entries
C22_Witness ==
  /\ run.pc = "hash"
  /\ run.self.height = 2
  /\ run.n = 3
  /\ Len(run.stack) = 3

====
